---- MODULE Spec2Model ----
(***************************************************************************)
(* Model of posts.py: the bulk topic creator for a Discourse forum.        *)
(*                                                                         *)
(* A Python str is a sequence of one-character strings.  None is the       *)
(* one-element sequence holding a token that is no character, so that it   *)
(* differs from every str, the empty str included.  A dict is a function   *)
(* whose domain is its set of keys.                                        *)
(***************************************************************************)
EXTENDS Integers, Sequences, FiniteSets, TLC

\* ------------------------------------------------------------------ bounds
MaxTopics == 3
MaxUsers == 2
MaxBodyPieces == 2

\* ------------------------------------------------------- program constants
RETRY_LIMIT == 3
RATE_LIMIT_DELAY == 1
TIMEOUT == 10

None == <<"None">>
EmptyStr == <<>>

\* os.getenv("API_KEY"), os.getenv("API_USERNAME")
API_KEY == <<"K", "0">>
API_USERNAME == <<"U", "0">>

\* Python truthiness of a str-or-None value
Truthy(v) == v # None /\ v # EmptyStr

\* a or b
PyOr(a, b) == IF Truthy(a) THEN a ELSE b

\* d.get(k, default)
DictGet(d, k, default) == IF k \in DOMAIN d THEN d[k] ELSE default

\* d[k] = v
DictSet(d, k, v) == [x \in (DOMAIN d) \cup {k} |-> IF x = k THEN v ELSE d[x]]

\* ---------------------------------------------------- request construction
PLACEHOLDER == <<"[", "I", "M", "A", "G", "E", "]">>
START == <<"s", "t", "a", "r", "t">>
END == <<"e", "n", "d">>
INLINE == <<"i", "n", "l", "i", "n", "e">>
EmptyDict == [k \in {} |-> None]

\* f"![Image]({image_url})"
ImageMarkdown(image_url) ==
    <<"!", "[", "I", "m", "a", "g", "e", "]", "(">> \o image_url \o <<")">>

\* {title, raw, category, embed_url, external_id} before the None filter
RawData(title, body, category, embed_url, external_id) ==
    [k \in {"title", "raw", "category", "embed_url", "external_id"} |->
        CASE k = "title" -> title
          [] k = "raw" -> body
          [] k = "category" -> category
          [] k = "embed_url" -> embed_url
          [] k = "external_id" -> external_id]

KeepAll(d) == d

\* {k: v for k, v in data.items() if v is not None}
FilterNone(d) == [k \in {x \in DOMAIN d : d[x] # None} |-> d[k]]

\* the formatting dict: formatting.get(flag) is truthy
FlagSet(formatting, flag) == flag \in DOMAIN formatting /\ formatting[flag]

HeaderFirstFormatting(body, formatting) ==
    LET h == IF FlagSet(formatting, "header") THEN <<"#", " ">> \o body ELSE body
        b == IF FlagSet(formatting, "bold") THEN <<"*", "*">> \o h \o <<"*", "*">> ELSE h
    IN  IF FlagSet(formatting, "italic") THEN <<"*">> \o b \o <<"*">> ELSE b

\* if formatting: bold, then italic, then header, each wrapping the current body
ApplyFormatting(body, formatting) ==
    IF DOMAIN formatting = {} THEN body
    ELSE LET b == IF FlagSet(formatting, "bold")
                     THEN <<"*", "*">> \o body \o <<"*", "*">> ELSE body
             i == IF FlagSet(formatting, "italic") THEN <<"*">> \o b \o <<"*">> ELSE b
         IN  IF FlagSet(formatting, "header") THEN <<"#", " ">> \o i ELSE i

\* str.replace(old, new, 1): only the first occurrence
ReplaceFirst(s, old, new) ==
    LET hits == {p \in 1..(Len(s) - Len(old) + 1) : SubSeq(s, p, p + Len(old) - 1) = old}
    IN  IF hits = {} THEN s
        ELSE LET p == CHOOSE q \in hits : \A r \in hits : q <= r
             IN  SubSeq(s, 1, p - 1) \o new \o SubSeq(s, p + Len(old), Len(s))

\* str.replace(old, new): every non-overlapping occurrence, left to right
RECURSIVE Replace(_, _, _)
Replace(s, old, new) ==
    IF Len(s) < Len(old) THEN s
    ELSE IF SubSeq(s, 1, Len(old)) = old
         THEN new \o Replace(SubSeq(s, Len(old) + 1, Len(s)), old, new)
         ELSE <<Head(s)>> \o Replace(Tail(s), old, new)

SingleNewlineImage(body, image_url, image_position) ==
    IF ~Truthy(image_url) THEN body
    ELSE LET image_markdown == ImageMarkdown(image_url)
         IN  CASE image_position = START -> image_markdown \o <<"\n">> \o body
               [] image_position = END -> body \o <<"\n">> \o image_markdown
               [] image_position = INLINE -> Replace(body, PLACEHOLDER, image_markdown)
               [] OTHER -> body

\* if image_url: start / end / inline
InsertImage(body, image_url, image_position) ==
    IF ~Truthy(image_url) THEN body
    ELSE LET image_markdown == ImageMarkdown(image_url)
         IN  CASE image_position = START ->
                    image_markdown \o <<"\n", "\n">> \o body
               [] image_position = END ->
                    body \o <<"\n", "\n">> \o image_markdown
               [] image_position = INLINE ->
                    Replace(body, PLACEHOLDER, image_markdown)
               [] OTHER -> body

\* the json= argument of session.post
BuildData(a) ==
    DictSet(FilterNone(RawData(a.title, a.body, a.category, a.embed_url, a.external_id)),
            "raw",
            InsertImage(ApplyFormatting(a.body, a.formatting), a.image_url, a.image_position))

WholePairHeaders(user_api_key, user_api_username) ==
    IF Truthy(user_api_key) /\ Truthy(user_api_username)
    THEN [ApiKey |-> user_api_key, ApiUsername |-> user_api_username,
          ContentType |-> "application/json"]
    ELSE [ApiKey |-> API_KEY, ApiUsername |-> API_USERNAME,
          ContentType |-> "application/json"]

NoDefaultHeaders(user_api_key, user_api_username) ==
    [ApiKey |-> user_api_key, ApiUsername |-> user_api_username,
     ContentType |-> "application/json"]

\* the headers= argument of session.post
BuildHeaders(user_api_key, user_api_username) ==
    [ApiKey |-> PyOr(user_api_key, API_KEY),
     ApiUsername |-> PyOr(user_api_username, API_USERNAME),
     ContentType |-> "application/json"]

\* ------------------------------------------------------------ input domains
Absent == <<"Absent">>
TopicKeys == {"title", "body", "category", "image_url", "image_position",
              "formatting", "embed_url", "external_id"}
FormatKeys == {"bold", "italic", "header"}

\* one element of topics.json: the keys that are Absent are not in the dict
MkTopic(t, b, c, iu, ip, f, hasf, e, x) ==
    LET val(k) == CASE k = "title" -> t
                    [] k = "body" -> b
                    [] k = "category" -> c
                    [] k = "image_url" -> iu
                    [] k = "image_position" -> ip
                    [] k = "formatting" -> f
                    [] k = "embed_url" -> e
                    [] k = "external_id" -> x
        present(k) == IF k = "formatting" THEN hasf ELSE val(k) # Absent
    IN  [k \in {q \in TopicKeys : present(q)} |-> val(k)]

RECURSIVE Flatten(_)
Flatten(ss) == IF ss = <<>> THEN <<>> ELSE Head(ss) \o Flatten(Tail(ss))

SeqsUpTo(S, n) == UNION {[1..m -> S] : m \in 0..n}

BodyPieces == {<<"X">>, PLACEHOLDER}
Bodies == {Flatten(ps) : ps \in SeqsUpTo(BodyPieces, MaxBodyPieces)}

RichTopics ==
    {MkTopic(t, b, c, iu, ip, f, hasf, e, x) :
        t \in {Absent, <<"A">>}, b \in {Absent} \cup Bodies, c \in {Absent, <<"0">>},
        iu \in {Absent, <<"u">>}, ip \in {Absent, START, END, INLINE},
        f \in [FormatKeys -> BOOLEAN], hasf \in BOOLEAN,
        e \in {Absent, <<"e">>}, x \in {Absent, <<"x">>}}

BatchTopics ==
    {[title |-> <<"A">>, body |-> <<"X">>],
     [title |-> <<"B">>, body |-> PLACEHOLDER, image_url |-> <<"u">>,
      image_position |-> INLINE, formatting |-> [bold |-> TRUE]]}

\* the entries of users_info: os.getenv gives None for a variable that is not set
UserPairs ==
    {[api_key |-> <<"K", "1">>, username |-> <<"U", "1">>],
     [api_key |-> <<"K", "2">>, username |-> None],
     [api_key |-> None, username |-> <<"U", "3">>]}

\* users_info=None, or a list of pairs (the empty list included)
UserLists ==
    {[isNone |-> TRUE, items |-> <<>>]}
        \cup {[isNone |-> FALSE, items |-> us] : us \in SeqsUpTo(UserPairs, MaxUsers)}

\* what the remote API answers on HTTP success: a JSON object
Payloads ==
    {EmptyDict, [id |-> <<"7">>], [id |-> <<"7">>, post_number |-> <<"1">>]}

\* what makes session.post, raise_for_status or response.json raise
ErrKinds == {"http_status", "timeout", "network", "malformed"}

\* ------------------------------------------------------------------- state
VARIABLES
    file,        \* topics.json: whether it can be read and parsed, and what it holds
    topics,      \* the topics argument
    users_info,  \* the users_info argument
    pc,          \* where __main__ and add_multiple_topics are
    session,     \* the aiohttp.ClientSession
    tasks,       \* the coroutines appended so far: their arguments
    tstate,      \* per task: "pending", "inflight" or "done"
    results,     \* per task: what create_topic returned
    requests,    \* the session.post calls made, in the order made
    responses,   \* what asyncio.gather returned
    j,           \* the index of the report loop
    log          \* the report and error lines logged

vars == <<file, topics, users_info, pc, session, tasks, tstate, results, requests,
          responses, j, log>>

NoneResult == [none |-> TRUE, json |-> EmptyDict]
JsonResult(p) == [none |-> FALSE, json |-> p]

\* if response:
ResponseTruthy(r) == ~r.none /\ DOMAIN r.json # {}

\* if users_info:
UsersTruthy(u) == ~u.isNone /\ u.items # <<>>

NextUser(users, i) == users[((i + 1) % Len(users)) + 1]

\* users_info[i % len(users_info)], i counted from 0
SelectUser(users, i) == users[(i % Len(users)) + 1]

\* lines 127-133
AssignCreds(u, i) ==
    IF UsersTruthy(u)
    THEN LET user_info == SelectUser(u.items, i)
         IN  [user_api_key |-> user_info.api_key,
              user_api_username |-> user_info.username]
    ELSE [user_api_key |-> None, user_api_username |-> None]

\* the arguments of the create_topic call for topics[i + 1]
TaskArgs(topic, u, i) ==
    LET creds == AssignCreds(u, i)
    IN  [title |-> DictGet(topic, "title", None),
         body |-> DictGet(topic, "body", EmptyStr),
         category |-> DictGet(topic, "category", None),
         image_url |-> DictGet(topic, "image_url", None),
         image_position |-> DictGet(topic, "image_position", END),
         formatting |-> DictGet(topic, "formatting", EmptyDict),
         embed_url |-> DictGet(topic, "embed_url", None),
         external_id |-> DictGet(topic, "external_id", None),
         user_api_key |-> creds.user_api_key,
         user_api_username |-> creds.user_api_username]

Attempts(k) == Cardinality({n \in 1..Len(requests) : requests[n].topic = k})

RetryOnError(attempts) == IF attempts < RETRY_LIMIT THEN "pending" ELSE "done"

\* except Exception: log and return None, whatever the number of attempts
OnError(attempts) == "done"

\* what open() or json.load raises on
LoadErrors == {"missing", "unreadable", "invalid_json"}

\* add_multiple_topics called on its own: no file is read
NoFile == [status |-> "none", content |-> <<>>]

TopicFiles ==
    {[status |-> e, content |-> <<>>] : e \in LoadErrors}
        \cup {[status |-> "ok", content |-> ts] : ts \in SeqsUpTo(BatchTopics, MaxTopics)}

DefaultTopicOnError(f) ==
    IF f.status = "ok" THEN f.content ELSE <<[title |-> <<"A">>, body |-> <<"X">>]>>

\* load_topics_from_json: the parsed list, or [] when open or json.load raises
LoadResult(f) == IF f.status = "ok" THEN f.content ELSE <<>>

\* nothing is opened, built, sent or logged yet
InitBatchState ==
    /\ session = "unopened"
    /\ tasks = <<>>
    /\ tstate = <<>>
    /\ results = <<>>
    /\ requests = <<>>
    /\ responses = <<>>
    /\ j = 1
    /\ log = <<>>

InitCommon ==
    /\ pc = "start"
    /\ InitBatchState

\* the process starts: topics.json is missing, unreadable, no JSON, or holds a
\* list of topics; users_info is the list of the numbered pairs of the
\* environment, each value None when its variable is not set
InitMain ==
    /\ file \in TopicFiles
    /\ topics = <<>>
    /\ users_info \in {[isNone |-> FALSE, items |-> us] : us \in [1..MaxUsers -> UserPairs]}
    /\ pc = "main"
    /\ InitBatchState

\* a batch of up to MaxTopics topics with any credential list
Init ==
    /\ file = NoFile
    /\ topics \in SeqsUpTo(BatchTopics, MaxTopics)
    /\ users_info \in UserLists
    /\ InitCommon

\* one topic of any shape, with the default credentials
InitBuild ==
    /\ file = NoFile
    /\ topics \in {<<t>> : t \in RichTopics}
    /\ users_info = [isNone |-> TRUE, items |-> <<>>]
    /\ InitCommon

\* topics = load_topics_from_json(topics_file)
LoadTopics ==
    /\ pc = "main"
    /\ topics' = LoadResult(file)
    /\ log' = IF file.status = "ok" THEN log
              ELSE Append(log, [level |-> "ERROR", kind |-> "load_failed",
                                title |-> None, id |-> None])
    /\ pc' = "loaded"
    /\ UNCHANGED <<file, users_info, session, tasks, tstate, results, requests,
                   responses, j>>

\* if topics: asyncio.run(add_multiple_topics(topics, users_info))
RunBatch ==
    /\ pc = "loaded"
    /\ topics # <<>>
    /\ pc' = "start"
    /\ UNCHANGED <<file, topics, users_info, session, tasks, tstate, results, requests,
                   responses, j, log>>

\* else: logging.error("No topics to process. ...") and the process ends
NoTopics ==
    /\ pc = "loaded"
    /\ topics = <<>>
    /\ log' = Append(log, [level |-> "ERROR", kind |-> "no_topics",
                           title |-> None, id |-> None])
    /\ pc' = "exit"
    /\ UNCHANGED <<file, topics, users_info, session, tasks, tstate, results, requests,
                   responses, j>>

\* async with aiohttp.ClientSession() as session
Enter ==
    /\ pc = "start"
    /\ session' = "open"
    /\ pc' = "loop"
    /\ UNCHANGED <<file, topics, users_info, tasks, tstate, results, requests, responses, j, log>>

\* one iteration of the for loop: build the coroutine and append it
LoopIter ==
    /\ pc = "loop"
    /\ Len(tasks) < Len(topics)
    /\ tasks' = Append(tasks, TaskArgs(topics[Len(tasks) + 1], users_info, Len(tasks)))
    /\ tstate' = Append(tstate, "pending")
    /\ results' = Append(results, NoneResult)
    /\ UNCHANGED <<file, topics, users_info, pc, session, requests, responses, j, log>>

\* the loop is over: await asyncio.gather(*tasks) schedules every coroutine
StartGather ==
    /\ pc = "loop"
    /\ Len(tasks) = Len(topics)
    /\ pc' = "gather"
    /\ UNCHANGED <<file, topics, users_info, session, tasks, tstate, results, requests,
                   responses, j, log>>

SemaphoreOfTwo(k) ==
    /\ \A m \in 1..(k - 1) : tstate[m] # "pending"
    /\ Cardinality({m \in 1..Len(tstate) : tstate[m] = "inflight"}) < 2

\* what task k waits for before its session.post: its turn in the ready
\* queue and nothing else: no semaphore, no pool limit, no delay
CanStart(k) == \A m \in 1..(k - 1) : tstate[m] # "pending"

\* create_topic up to its suspension in session.post.  gather wraps the
\* coroutines in tasks in argument order and the event loop runs the ready
\* tasks first in, first out: task k starts after every task before it.
TaskStart(k) ==
    /\ pc = "gather"
    /\ tstate[k] = "pending"
    /\ CanStart(k)
    /\ requests' = Append(requests,
            [topic |-> k,
             headers |-> BuildHeaders(tasks[k].user_api_key, tasks[k].user_api_username),
             data |-> BuildData(tasks[k])])
    /\ tstate' = [tstate EXCEPT ![k] = "inflight"]
    /\ UNCHANGED <<file, topics, users_info, pc, session, tasks, results, responses, j, log>>

\* HTTP success: return await response.json().  A response is read in a later
\* turn of the event loop than the one that starts the tasks, so every task
\* has started by then.
Respond(k, payload) ==
    /\ pc = "gather"
    /\ tstate[k] = "inflight"
    /\ \A m \in 1..Len(tasks) : tstate[m] # "pending"
    /\ tstate' = [tstate EXCEPT ![k] = "done"]
    /\ results' = [results EXCEPT ![k] = JsonResult(payload)]
    /\ UNCHANGED <<file, topics, users_info, pc, session, tasks, requests, responses, j, log>>

\* any exception of the request: logged, and None is returned.  session.post
\* may raise at once, before the next task starts.
Fail(k, kind) ==
    /\ pc = "gather"
    /\ tstate[k] = "inflight"
    /\ tstate' = [tstate EXCEPT ![k] = OnError(Attempts(k))]
    /\ IF OnError(Attempts(k)) = "done"
       THEN /\ results' = [results EXCEPT ![k] = NoneResult]
            /\ log' = Append(log, [level |-> "ERROR", kind |-> "error",
                                   title |-> tasks[k].title, id |-> None])
       ELSE UNCHANGED <<results, log>>
    /\ UNCHANGED <<file, topics, users_info, pc, session, tasks, requests, responses, j>>

\* the list asyncio.gather returns: one result per awaitable, in argument order
GatherResults(rs, ts) == [k \in 1..Len(ts) |-> rs[k]]

FirstCompleted == \E k \in 1..Len(tasks) : tstate[k] = "done"

\* gather's future is set when the last of its awaitables is done
GatherReady == \A k \in 1..Len(tasks) : tstate[k] = "done"

\* every task is done: gather returns
GatherReturn ==
    /\ pc = "gather"
    /\ GatherReady
    /\ responses' = GatherResults(results, tasks)
    /\ pc' = "report"
    /\ j' = 1
    /\ UNCHANGED <<file, topics, users_info, session, tasks, tstate, results, requests, log>>

LeakOnRaise(how) == IF how = "raised" THEN "open" ELSE "closed"

\* the end of the async with block, by return or by an exception: __aexit__
\* closes the session
SessionExit(how) == "closed"

\* one iteration of for response, topic in zip(responses, topics)
ReportIter ==
    /\ pc = "report"
    /\ j <= Len(topics) /\ j <= Len(responses)
    /\ LET response == responses[j]
           title == DictGet(topics[j], "title", None)
       IN  IF ResponseTruthy(response)
           THEN IF "post_number" \in DOMAIN response.json
                THEN /\ log' = Append(log, [level |-> "INFO", kind |-> "created",
                                            title |-> title,
                                            id |-> response.json["post_number"]])
                     /\ j' = j + 1
                     /\ UNCHANGED <<pc, session>>
                ELSE \* response['post_number'] raises KeyError: the session is
                     \* closed and the exception leaves add_multiple_topics
                     /\ pc' = "raised"
                     /\ session' = SessionExit("raised")
                     /\ UNCHANGED <<j, log>>
           ELSE /\ log' = Append(log, [level |-> "ERROR", kind |-> "failed",
                                       title |-> title, id |-> None])
                /\ j' = j + 1
                /\ UNCHANGED <<pc, session>>
    /\ UNCHANGED <<file, topics, users_info, tasks, tstate, results, requests, responses>>

\* the report loop is over: the session is closed and the coroutine returns
Finish ==
    /\ pc = "report"
    /\ (j > Len(topics) \/ j > Len(responses))
    /\ session' = SessionExit("done")
    /\ pc' = "done"
    /\ UNCHANGED <<file, topics, users_info, tasks, tstate, results, requests, responses, j, log>>

\* the request of task k ends, one way or the other
Complete(k) ==
    /\ k \in 1..Len(tasks)
    /\ \/ \E payload \in Payloads : Respond(k, payload)
       \/ \E kind \in ErrKinds : Fail(k, kind)

Next ==
    \/ Enter
    \/ LoopIter
    \/ StartGather
    \/ \E k \in 1..Len(tasks) : TaskStart(k)
    \/ \E k \in 1..Len(tasks), payload \in Payloads : Respond(k, payload)
    \/ \E k \in 1..Len(tasks), kind \in ErrKinds : Fail(k, kind)
    \/ GatherReturn
    \/ ReportIter
    \/ Finish

Spec == Init /\ [][Next]_vars

\* the event loop runs every step that is ready, and every request in flight
\* gets its response or its error: the timeout of session.post (TIMEOUT) ends
\* a request that gets no answer
Fairness ==
    /\ WF_vars(Enter \/ LoopIter \/ StartGather \/ GatherReturn \/ ReportIter \/ Finish)
    /\ \A k \in 1..MaxTopics : WF_vars(k \in 1..Len(tasks) /\ TaskStart(k))
    /\ \A k \in 1..MaxTopics : WF_vars(Complete(k))

\* the batch under that scheduling
SpecFair == Init /\ [][Next]_vars /\ Fairness

NextMain == LoadTopics \/ RunBatch \/ NoTopics \/ Next

\* the process from its start
SpecMain == InitMain /\ [][NextMain]_vars

SpecBuild == InitBuild /\ [][Next]_vars

\* ------------------------------------------------------------------ claims
Ended == pc \in {"done", "raised"}

IsReportLine(l) == l.kind \in {"created", "failed"}

\* the lines of the report loop, in the order logged
ReportLines == SelectSeq(log, IsReportLine)

\* the title and the body add_multiple_topics reads from topics[k]
TitleOf(k) == DictGet(topics[k], "title", None)
BodyOf(k) == DictGet(topics[k], "body", EmptyStr)

\* the start positions of the occurrences of pat in s
Occ(s, pat) == {p \in 1..(Len(s) - Len(pat) + 1) : SubSeq(s, p, p + Len(pat) - 1) = pat}

\* C1: with a non-empty credential list of length M, the coroutine of the topic
\* at 0-based index i is given the key and the username of the pair at index
\* i mod M, and the request of that topic carries each value that pair has.
C1_RoundRobin ==
    UsersTruthy(users_info) =>
        /\ \A k \in 1..Len(tasks) :
              LET pair == users_info.items[((k - 1) % Len(users_info.items)) + 1]
              IN  /\ tasks[k].user_api_key = pair.api_key
                  /\ tasks[k].user_api_username = pair.username
        /\ \A n \in 1..Len(requests) :
              LET i == requests[n].topic - 1
                  pair == users_info.items[(i % Len(users_info.items)) + 1]
              IN  /\ Truthy(pair.api_key) => requests[n].headers.ApiKey = pair.api_key
                  /\ Truthy(pair.username) =>
                        requests[n].headers.ApiUsername = pair.username

\* three topics over two different pairs: the third request reuses the first pair
C1_Witness ==
    /\ ~users_info.isNone
    /\ Len(users_info.items) = 2
    /\ users_info.items[1] # users_info.items[2]
    /\ Len(topics) = 3
    /\ Len(requests) = 3

\* C2 as stated: when exactly one call fails and every other call succeeds,
\* the finished report holds exactly one failure line, that of the failed topic.
C2_OneFailureLine ==
    (/\ Ended
     /\ Len(results) = Len(topics)
     /\ Cardinality({k \in 1..Len(results) : results[k].none}) = 1)
        => /\ Cardinality({n \in 1..Len(ReportLines) : ReportLines[n].kind = "failed"}) = 1
           /\ \A k \in 1..Len(results) :
                 ~results[k].none => responses[k] = results[k]
           /\ \A n \in 1..Len(ReportLines) :
                 ReportLines[n].kind = "failed" => results[n].none

\* C3 as stated: whatever the completion order, responses[i] is the outcome of
\* the request of topics[i] and the report holds one line per topic, in topic
\* order, each with the title of its topic.
C3_OrderedReport ==
    Ended =>
        /\ Len(responses) = Len(topics)
        /\ \A k \in 1..Len(topics) : responses[k] = results[k]
        /\ Len(ReportLines) = Len(topics)
        /\ \A n \in 1..Len(ReportLines) : ReportLines[n].title = TitleOf(n)

\* C4 as stated: add_multiple_topics never raises to its caller.
C4_NeverRaises == pc # "raised"

\* C5: exactly one session.post is made for each topic: none before its task
\* starts, one from then on, also after a failure, and none for anything else.
C5_ExactlyOnce ==
    /\ \A n \in 1..Len(requests) : requests[n].topic \in 1..Len(topics)
    /\ \A k \in 1..Len(tasks) :
          Attempts(k) = (IF tstate[k] = "pending" THEN 0 ELSE 1)
    /\ pc \in {"report", "done", "raised"} =>
          \A k \in 1..Len(topics) : Attempts(k) = 1

\* a batch of two topics or more has ended and a request of it had failed
C5_Witness ==
    /\ pc = "done"
    /\ Len(topics) >= 2
    /\ \E k \in 1..Len(results) : results[k].none

\* C6: for a topic with its title, the payload has exactly the keys title and
\* raw plus those of category, embed_url and external_id the topic has, each
\* optional value is the topic's, none is None, and without formatting and
\* image raw is the body.
C6_PayloadKeys ==
    \A n \in 1..Len(requests) :
        LET k == requests[n].topic
            topic == topics[k]
            data == requests[n].data
            optional == {"category", "embed_url", "external_id"}
        IN  "title" \in DOMAIN topic =>
              /\ DOMAIN data = {"title", "raw"} \cup (optional \cap DOMAIN topic)
              /\ \A key \in DOMAIN data : data[key] # None
              /\ \A key \in (DOMAIN data) \ {"raw"} : data[key] = topic[key]
              /\ ("formatting" \notin DOMAIN topic /\ "image_url" \notin DOMAIN topic)
                    => data["raw"] = BodyOf(k)

\* a request of a topic that has some of the optional fields and lacks others
C6_Witness ==
    \E n \in 1..Len(requests) :
        LET topic == topics[requests[n].topic]
        IN  /\ "title" \in DOMAIN topic
            /\ "category" \in DOMAIN topic
            /\ "embed_url" \notin DOMAIN topic
            /\ DOMAIN requests[n].data = {"title", "raw", "category", "external_id"}

\* the topic of C7: bold, italic and header set, no image, body "X"
C7_Case(topic) ==
    /\ "formatting" \in DOMAIN topic
    /\ topic["formatting"] = [bold |-> TRUE, italic |-> TRUE, header |-> TRUE]
    /\ "image_url" \notin DOMAIN topic
    /\ "body" \in DOMAIN topic
    /\ topic["body"] = <<"X">>

\* C7 as stated: the raw body of that topic is "# *(**X**)*".
C7_Parenthesised ==
    \A n \in 1..Len(requests) :
        C7_Case(topics[requests[n].topic]) =>
            requests[n].data["raw"] =
                <<"#", " ", "*", "(", "*", "*", "X", "*", "*", ")", "*">>

\* C7, amended: the raw body of that topic is "# ***X***": bold, then italic,
\* then the header marker outermost, and no parentheses.
C7_WrapOrder ==
    \A n \in 1..Len(requests) :
        C7_Case(topics[requests[n].topic]) =>
            requests[n].data["raw"] = <<"#", " ", "*", "*", "*", "X", "*", "*", "*">>

\* the request of such a topic has been made
C7_Witness ==
    \E n \in 1..Len(requests) : C7_Case(topics[requests[n].topic])

\* the topic of C8: an image URL and image_position "inline"
C8_Case(topic) ==
    /\ "image_url" \in DOMAIN topic
    /\ "image_position" \in DOMAIN topic
    /\ topic["image_position"] = INLINE

\* the body the image is spliced into: the topic's body after the formatting
C8_Formatted(topic) ==
    ApplyFormatting(DictGet(topic, "body", EmptyStr),
                    DictGet(topic, "formatting", EmptyDict))

\* C8 as stated: only the first placeholder is replaced by the image markdown.
C8_FirstOnly ==
    \A n \in 1..Len(requests) :
        LET topic == topics[requests[n].topic]
        IN  C8_Case(topic) =>
              requests[n].data["raw"] =
                  ReplaceFirst(C8_Formatted(topic), PLACEHOLDER,
                               ImageMarkdown(topic["image_url"]))

\* C8, amended: every placeholder of the body is replaced by the image
\* markdown and the rest of the body is left as it is: no placeholder is left,
\* there is one image per placeholder, and putting the placeholders back gives
\* the body; a body without placeholder is unchanged and the image is dropped.
C8_EveryOccurrence ==
    \A n \in 1..Len(requests) :
        LET topic == topics[requests[n].topic]
            raw == requests[n].data["raw"]
            md == ImageMarkdown(topic["image_url"])
            fb == C8_Formatted(topic)
        IN  C8_Case(topic) =>
              /\ Occ(raw, PLACEHOLDER) = {}
              /\ Cardinality(Occ(raw, md)) = Cardinality(Occ(fb, PLACEHOLDER))
              /\ Len(raw) = Len(fb) + Cardinality(Occ(fb, PLACEHOLDER))
                                        * (Len(md) - Len(PLACEHOLDER))
              /\ Replace(raw, md, PLACEHOLDER) = fb
              /\ Occ(fb, PLACEHOLDER) = {} => raw = fb

\* the request of an inline topic whose body holds the placeholder twice
C8_Witness ==
    \E n \in 1..Len(requests) :
        LET topic == topics[requests[n].topic]
        IN  /\ C8_Case(topic)
            /\ Cardinality(Occ(BodyOf(requests[n].topic), PLACEHOLDER)) = 2
            /\ Cardinality(Occ(requests[n].data["raw"],
                               ImageMarkdown(topic["image_url"]))) = 2

\* C9 as stated: the headers are the assigned pair when it has both values and
\* the default pair otherwise, never the key of one with the username of the other.
C9_WholePair ==
    \A n \in 1..Len(requests) :
        LET a == tasks[requests[n].topic]
            h == requests[n].headers
        IN  IF Truthy(a.user_api_key) /\ Truthy(a.user_api_username)
            THEN h.ApiKey = a.user_api_key /\ h.ApiUsername = a.user_api_username
            ELSE h.ApiKey = API_KEY /\ h.ApiUsername = API_USERNAME

\* C9, amended: each header falls back on its own: Api-Key is the assigned key
\* when the pair has one and the default key otherwise, Api-Username is the
\* assigned username when the pair has one and the default username otherwise.
\* The request carries a whole pair when the assigned pair has both values or
\* neither, and one value of each pair when it has exactly one.
C9_PerFieldFallback ==
    \A n \in 1..Len(requests) :
        LET a == tasks[requests[n].topic]
            h == requests[n].headers
            hasKey == a.user_api_key # None /\ a.user_api_key # EmptyStr
            hasName == a.user_api_username # None /\ a.user_api_username # EmptyStr
        IN  /\ hasKey => h.ApiKey = a.user_api_key
            /\ ~hasKey => h.ApiKey = API_KEY
            /\ hasName => h.ApiUsername = a.user_api_username
            /\ ~hasName => h.ApiUsername = API_USERNAME

\* a request whose assigned pair has a key and no username
C9_Witness ==
    \E n \in 1..Len(requests) :
        LET a == tasks[requests[n].topic]
        IN  /\ Truthy(a.user_api_key)
            /\ a.user_api_username = None
            /\ requests[n].headers.ApiKey = a.user_api_key

\* C10: with users_info None or empty, no pair is selected for any topic and
\* every request carries the default key and the default username.
C10_DefaultPair ==
    ~UsersTruthy(users_info) =>
        /\ \A k \in 1..Len(tasks) :
              tasks[k].user_api_key = None /\ tasks[k].user_api_username = None
        /\ \A n \in 1..Len(requests) :
              /\ requests[n].headers.ApiKey = API_KEY
              /\ requests[n].headers.ApiUsername = API_USERNAME

\* every request of a batch of three topics given the empty list has been made
C10_Witness ==
    /\ ~users_info.isNone
    /\ users_info.items = <<>>
    /\ Len(topics) = 3
    /\ Len(requests) = 3

\* C11: when topics.json is missing, unreadable or no JSON,
\* load_topics_from_json returns [] and from then on no session is opened, no
\* coroutine is built, no request is made, and only errors are logged.
C11_LoadFailureHalts ==
    (file.status \in LoadErrors /\ pc # "main") =>
        /\ topics = <<>>
        /\ pc \in {"loaded", "exit"}
        /\ session = "unopened"
        /\ tasks = <<>>
        /\ requests = <<>>
        /\ log # <<>>
        /\ \A n \in 1..Len(log) : log[n].level = "ERROR"

\* the process has ended after a failed load
C11_Witness ==
    /\ file.status = "invalid_json"
    /\ pc = "exit"
    /\ Len(log) = 2

\* C12: with an image URL, for image_position "start" the raw body is the image
\* markdown, one blank line, then the formatted body; for "end", and for a topic
\* without image_position, it is the formatted body, one blank line, then the
\* image markdown.
C12_ImageStartEnd ==
    \A n \in 1..Len(requests) :
        LET topic == topics[requests[n].topic]
            raw == requests[n].data["raw"]
            fb == C8_Formatted(topic)
            position == IF "image_position" \in DOMAIN topic
                        THEN topic["image_position"] ELSE <<"e", "n", "d">>
        IN  "image_url" \in DOMAIN topic =>
              LET md == <<"!", "[", "I", "m", "a", "g", "e", "]", "(">>
                            \o topic["image_url"] \o <<")">>
              IN  /\ position = <<"s", "t", "a", "r", "t">> =>
                        raw = md \o <<"\n", "\n">> \o fb
                  /\ position = <<"e", "n", "d">> =>
                        raw = fb \o <<"\n", "\n">> \o md

\* the request of a formatted topic with an image and no image_position
C12_Witness ==
    \E n \in 1..Len(requests) :
        LET topic == topics[requests[n].topic]
        IN  /\ "image_url" \in DOMAIN topic
            /\ "image_position" \notin DOMAIN topic
            /\ "formatting" \in DOMAIN topic
            /\ topic["formatting"]["bold"]
            /\ Len(requests[n].data["raw"]) = Len(BodyOf(requests[n].topic)) + 4 + 2 + 11

\* C13: no report line is logged before the request of every topic has ended;
\* a request in flight stays in flight until it ends itself, whatever happens
\* to the others, it can always end, and an ended request keeps its result.
C13_ReportAfterAll ==
    /\ [](ReportLines # <<>> =>
            /\ Len(tstate) = Len(topics)
            /\ \A k \in 1..Len(tstate) : tstate[k] = "done")
    /\ [](\A k \in 1..Len(tstate) :
            tstate[k] = "inflight" => (pc = "gather" /\ ENABLED Complete(k)))
    /\ [][\A k \in 1..Len(tstate) :
            /\ tstate[k] = "inflight" => tstate'[k] \in {"inflight", "done"}
            /\ tstate[k] = "done" => (tstate'[k] = "done" /\ results'[k] = results[k])]_vars

\* the report has begun for a batch in which a request failed and another did not
C13_Witness ==
    /\ ReportLines # <<>>
    /\ \E k \in 1..Len(results) : results[k].none
    /\ \E k \in 1..Len(results) : ~results[k].none

\* C14 as stated: every report line is a success line exactly when the request
\* of its topic ended in HTTP success with a parsed JSON body, whatever that
\* body is, and a failure line exactly when the request raised; and once the
\* batch has ended every topic has its line.
C14_LineIffOutcome ==
    /\ \A n \in 1..Len(ReportLines) :
          /\ ReportLines[n].kind = "created" <=> ~results[n].none
          /\ ReportLines[n].kind = "failed" <=> results[n].none
    /\ Ended => Len(ReportLines) = Len(results)

\* C15: the session is closed once the batch has ended, by return or by an
\* exception of the report loop, whatever the outcomes of the requests; it is
\* open as long as a request is in flight, and it is closed only at the end.
C15_SessionReleased ==
    /\ Ended => session = "closed"
    /\ session = "closed" => Ended
    /\ \A k \in 1..Len(tstate) : tstate[k] = "inflight" => session = "open"
    /\ pc \in {"loop", "gather", "report"} => session = "open"

\* the report loop raised after a request had failed, and the session is closed
C15_Witness ==
    /\ pc = "raised"
    /\ session = "closed"
    /\ \E k \in 1..Len(results) : results[k].none

\* C16 as stated: when every request gets its response or its timeout, the
\* batch ends with every task at its final outcome and with the report
\* produced for all N topics.
C16_ReportForAll ==
    <>(/\ Ended
       /\ Len(tstate) = Len(topics)
       /\ \A k \in 1..Len(tstate) : tstate[k] = "done"
       /\ Len(ReportLines) = Len(topics))

\* C17: once gather has scheduled the tasks, the next task in line can make its
\* request at once, however many requests are in flight and whether any has
\* completed or not; and the requests in flight are as many as the tasks
\* started and not yet ended, with no cap below the number of topics.
C17_NoConcurrencyCap ==
    pc = "gather" =>
        \A k \in 1..Len(tstate) :
            (tstate[k] = "pending" /\ \A m \in 1..(k - 1) : tstate[m] # "pending")
                => ENABLED TaskStart(k)

\* the requests of all the topics of a largest batch are in flight together
C17_Witness ==
    /\ Len(topics) = MaxTopics
    /\ Len(tstate) = MaxTopics
    /\ \A k \in 1..Len(tstate) : tstate[k] = "inflight"
    /\ Len(requests) = MaxTopics
====
